---- MODULE Spec2Model ----
(***************************************************************************)
(* VehicleControl (src/vehicle/vehicle_control.py): heartbeat tracking,    *)
(* arm/disarm state, RC-channel override encoding and relay gating.        *)
(*                                                                         *)
(* Every public method is one action.  The variables call, pre, result,    *)
(* events and sent describe the most recent call: its name and arguments,  *)
(* the flags on entry, how it ended, the signals it emitted and the        *)
(* messages it handed to the two transports.  log is what a receiver of    *)
(* the four signals has seen most recently.                                *)
(***************************************************************************)
EXTENDS Integers, Sequences, FiniteSets, TLC

VARIABLES connected, armed, last_msg_time, now, relay_open, call, pre, result, events, sent,
          log

vars ==
    <<connected, armed, last_msg_time, now, relay_open, call, pre, result, events, sent, log>>

(***************************************************************************)
(* Bounds of the model.                                                    *)
(***************************************************************************)
\* the clock runs over 0..MaxTime seconds
MaxTime == 3
\* a receiver remembers the last MaxLog signals
MaxLog == 3
\* a mapping passed to set_rc_input_pwms / set_rc_inputs has at most MaxEntries items
MaxEntries == 2
\* axis values are the rationals n/Denom
Denom == 800

(***************************************************************************)
(* Program constants.                                                      *)
(***************************************************************************)
TIMEOUT == 2
\* last_msg_time before the first heartbeat (Python None)
None == -1
\* 65535 means "ignore this field"
IGNORE == 65535
NUM_CHANNELS == 18
MIN_CHANNEL == 1
MIN_PWM == 1100
MAX_PWM == 1900
PWM_SCALE == 400
PWM_CENTER == 1500
ARMED_FLAG == 128

\* class InputChannel: name -> channel id
InputChannel ==
    [PITCH |-> 1, ROLL |-> 2, THROTTLE |-> 3, YAW |-> 4, FORWARD |-> 5, LATERAL |-> 6,
     PAN_CAMERA |-> 7, TILT_CAMERA |-> 8, LIGHTS_1 |-> 9, LIGHTS_2 |-> 10,
     VIDEO_SWITCH |-> 11]

\* class Relay: name -> hardware pin
Relay ==
    [PVC_FRONT |-> 1, CLAW_FRONT |-> 4, PVC_BACK |-> 2, CLAW_BACK |-> 3,
     MAGNET |-> 0, LIGHTS |-> 5]

\* iteration order of "for relay in Relay" (definition order of the enum)
RelayOrder == <<"PVC_FRONT", "CLAW_FRONT", "PVC_BACK", "CLAW_BACK", "MAGNET", "LIGHTS">>

RelayNames == {RelayOrder[i] : i \in 1..Len(RelayOrder)}

(***************************************************************************)
(* Inputs.                                                                 *)
(***************************************************************************)
\* base_mode bytes of received heartbeats
BaseModes == {0, 81, 128, 209}

\* the result of link.wait_heartbeat(blocking=False): a heartbeat or nothing
Msgs ==
    {[present |-> FALSE, base_mode |-> 0]}
        \cup {[present |-> TRUE, base_mode |-> b] : b \in BaseModes}

\* items offered to set_rc_input_pwms: <<channel_id, pwm>>, on and around the limits
PwmItems ==
    {<<MIN_CHANNEL - 1, PWM_CENTER>>, <<MIN_CHANNEL, MIN_PWM - 1>>, <<MIN_CHANNEL, MIN_PWM>>,
     <<NUM_CHANNELS, MAX_PWM>>, <<NUM_CHANNELS, MAX_PWM + 1>>,
     <<NUM_CHANNELS + 1, PWM_CENTER>>}

\* items offered to set_rc_inputs: <<channel, n>> for the axis value n/Denom
AxisItems ==
    {<<"PITCH", -Denom - 1>>, <<"PITCH", -Denom>>, <<"PITCH", 1>>, <<"PITCH", 3>>,
     <<"VIDEO_SWITCH", 0>>, <<"VIDEO_SWITCH", 2>>, <<"VIDEO_SWITCH", Denom>>,
     <<"VIDEO_SWITCH", Denom + 1>>}

\* a dict as the sequence of its items, in iteration order, keys distinct
DistinctKeys(items) ==
    \A i, j \in 1..Len(items) : i # j => items[i][1] # items[j][1]

Dicts(items) ==
    {d \in UNION {[1..n -> items] : n \in 0..MaxEntries} : DistinctKeys(d)}

\* which sendall() calls of one turn_off_relays() raise
FailSets == {{}, {"MAGNET"}, {"PVC_FRONT", "LIGHTS"}, RelayNames}

Keys(items) == {items[i][1] : i \in 1..Len(items)}

(***************************************************************************)
(* Messages and signals.                                                   *)
(***************************************************************************)
\* a message handed to a transport; ok is FALSE when the send raised
Message(link, kind, data, ok) == [link |-> link, kind |-> kind, data |-> data, ok |-> ok]

\* a signal, with the values is_connected() and is_armed() have during emit()
Signal(sig, c, a) == [sig |-> sig, connected |-> c, armed |-> a]

Names(evs) == [i \in 1..Len(evs) |-> evs[i].sig]

RECURSIVE Count(_, _)
Count(seq, x) ==
    IF seq = <<>> THEN 0
    ELSE (IF Head(seq) = x THEN 1 ELSE 0) + Count(Tail(seq), x)

\* the receiver's memory: the last MaxLog signal names
Remember(old, evs) ==
    LET all == old \o Names(evs)
    IN  IF Len(all) <= MaxLog THEN all
        ELSE SubSeq(all, Len(all) - MaxLog + 1, Len(all))

Entry == [connected |-> connected, armed |-> armed, last_msg_time |-> last_msg_time]

(***************************************************************************)
(* __init__                                                                *)
(***************************************************************************)
Init ==
    /\ connected = FALSE
    /\ armed = FALSE
    /\ last_msg_time = None
    /\ now = 0
    /\ relay_open = FALSE
    /\ call = [op |-> "__init__", arg |-> <<>>]
    /\ pre = [connected |-> FALSE, armed |-> FALSE, last_msg_time |-> None]
    /\ result = "return"
    /\ events = <<>>
    /\ sent = <<>>
    /\ log = <<>>

(***************************************************************************)
(* update()                                                                *)
(***************************************************************************)
\* variant: any non-zero base_mode counts as armed
ArmedBitNonZero(base_mode) == base_mode # 0

\* msg_dict.get("base_mode") & 0x80 == 0x80
ArmedBit(base_mode) == (base_mode \div ARMED_FLAG) % 2 = 1

\* variant: the comparison written >= instead of >
TimedOutInclusive(t, last) == t - last >= TIMEOUT

\* variant: the difference taken for milliseconds
TimedOutMillis(t, last) == t - last > TIMEOUT * 1000

\* time.time() - self.last_msg_time > TIMEOUT
TimedOut(t, last) == t - last > TIMEOUT

\* variant: armed / disarmed emitted on every heartbeat, without comparing with self.armed
UpdateSignalsNoCompare(msg, t) ==
    IF msg.present
    THEN (IF ~connected THEN <<Signal("connected", connected, armed)>> ELSE <<>>)
         \o (IF ArmedBit(msg.base_mode)
             THEN <<Signal("armed", TRUE, armed)>>
             ELSE <<Signal("disarmed", TRUE, armed)>>)
    ELSE IF connected /\ TimedOut(t, last_msg_time)
         THEN <<Signal("disconnected", connected, armed)>>
         ELSE <<>>

\* variant: each flag written before its signal is emitted
UpdateSignalsAfterWrite(msg, t) ==
    IF msg.present
    THEN (IF ~connected THEN <<Signal("connected", TRUE, armed)>> ELSE <<>>)
         \o (IF ArmedBit(msg.base_mode) # armed
             THEN (IF ArmedBit(msg.base_mode)
                   THEN <<Signal("armed", TRUE, TRUE)>>
                   ELSE <<Signal("disarmed", TRUE, FALSE)>>)
             ELSE <<>>)
    ELSE IF connected /\ TimedOut(t, last_msg_time)
         THEN <<Signal("disconnected", FALSE, armed)>>
         ELSE <<>>

\* the signals update() emits, in order
UpdateSignals(msg, t) ==
    IF msg.present
    THEN (IF ~connected THEN <<Signal("connected", connected, armed)>> ELSE <<>>)
         \o (IF ArmedBit(msg.base_mode) # armed
             THEN (IF ArmedBit(msg.base_mode)
                   THEN <<Signal("armed", TRUE, armed)>>
                   ELSE <<Signal("disarmed", TRUE, armed)>>)
             ELSE <<>>)
    ELSE IF connected /\ TimedOut(t, last_msg_time)
         THEN <<Signal("disconnected", connected, armed)>>
         ELSE <<>>

Update(msg, t) ==
    /\ now' = t
    /\ call' = [op |-> "update", arg |-> msg]
    /\ pre' = Entry
    /\ events' = UpdateSignals(msg, t)
    /\ log' = Remember(log, events')
    /\ sent' = <<>>
    /\ result' = "return"
    /\ IF msg.present
       THEN /\ connected' = TRUE
            /\ last_msg_time' = t
            /\ armed' = ArmedBit(msg.base_mode)
       ELSE /\ connected' = IF connected /\ TimedOut(t, last_msg_time) THEN FALSE ELSE connected
            /\ UNCHANGED <<armed, last_msg_time>>
    /\ UNCHANGED relay_open

(***************************************************************************)
(* arm() and disarm()                                                      *)
(***************************************************************************)
\* a sendall() on the relay socket succeeds only after arm() has called
\* connect_ex(), and may raise even then
SendOk(opened, fail) == opened /\ ~fail

\* variant: the guard checks the connection only
RelayGatedConnectedOnly(c, a, state) == ~c

\* the guard of set_relay: TRUE when the call returns without sending
RelayGated(c, a, state) == ~c \/ (~a /\ state)

\* variant: the two bytes in the other order
RelayBytesSwapped(relay, state) == <<IF state THEN 1 ELSE 0, Relay[relay]>>

\* bytes([relay.value, int(state)])
RelayBytes(relay, state) == <<Relay[relay], IF state THEN 1 ELSE 0>>

\* the messages one set_relay(relay, state) call hands to the relay socket
SetRelay(relay, state, fail) ==
    IF RelayGated(connected, armed, state)
    THEN <<>>
    ELSE <<Message("relay", "relay", RelayBytes(relay, state), SendOk(relay_open, fail))>>

\* variant: set_relay without its try/except, the first failing send ends the loop
RECURSIVE TurnOffRelaysUntilFailure(_, _)
TurnOffRelaysUntilFailure(i, fails) ==
    IF i > Len(RelayOrder) THEN <<>>
    ELSE SetRelay(RelayOrder[i], FALSE, RelayOrder[i] \in fails)
             \o (IF RelayOrder[i] \in fails THEN <<>>
                 ELSE TurnOffRelaysUntilFailure(i + 1, fails))

RECURSIVE TurnOffRelaysFrom(_, _)
TurnOffRelaysFrom(i, fails) ==
    IF i > Len(RelayOrder) THEN <<>>
    ELSE SetRelay(RelayOrder[i], FALSE, RelayOrder[i] \in fails)
             \o TurnOffRelaysFrom(i + 1, fails)

\* for relay in Relay: self.set_relay(relay, False)
TurnOffRelays(fails) == TurnOffRelaysFrom(1, fails)

\* what disarm() transmits, in order
DisarmSends(fails) == TurnOffRelays(fails) \o <<Message("mav", "disarm", <<>>, TRUE)>>

\* variant: disarm() clears self.armed itself instead of waiting for a heartbeat
CommandDisarmClearsArmed(op, arg, res, msgs) ==
    /\ call' = [op |-> op, arg |-> arg]
    /\ pre' = Entry
    /\ result' = res
    /\ sent' = msgs
    /\ events' = <<>>
    /\ armed' = IF op = "disarm" THEN FALSE ELSE armed
    /\ UNCHANGED <<connected, last_msg_time, now, log>>

\* a command leaves the flags, the heartbeat record and the clock alone
Command(op, arg, res, msgs) ==
    /\ call' = [op |-> op, arg |-> arg]
    /\ pre' = Entry
    /\ result' = res
    /\ sent' = msgs
    /\ events' = <<>>
    /\ UNCHANGED <<connected, armed, last_msg_time, now, log>>

Arm ==
    /\ Command("arm", <<>>, "return", <<Message("mav", "arm", <<>>, TRUE)>>)
    /\ relay_open' = TRUE

Disarm(fails) ==
    /\ Command("disarm", fails, "return", DisarmSends(fails))
    /\ UNCHANGED relay_open

SetRelayCall(relay, state, fail) ==
    /\ Command("set_relay", [relay |-> relay, state |-> state, fail |-> fail],
               "return", SetRelay(relay, state, fail))
    /\ UNCHANGED relay_open

TurnOffRelaysCall(fails) ==
    /\ Command("turn_off_relays", fails, "return", TurnOffRelays(fails))
    /\ UNCHANGED relay_open

(***************************************************************************)
(* set_rc_input_pwms, set_rc_inputs, stop_thrusters                        *)
(***************************************************************************)
Outcome(res, msgs) == [result |-> res, sent |-> msgs]

\* variant: "and" written for "or"
RcGatedBoth(c, a) == ~c /\ ~a

\* the guard of set_rc_input_pwms: TRUE when the call returns without sending
RcGated(c, a) == ~c \/ ~a

\* not (channel_id < 1 or channel_id > 18)
ChannelOk(channel_id) == ~(channel_id < MIN_CHANNEL \/ channel_id > NUM_CHANNELS)

\* 1100 <= pwm <= 1900
PwmOk(pwm) == MIN_PWM <= pwm /\ pwm <= MAX_PWM

\* [65535] * 18
IgnoreAll == [i \in 1..NUM_CHANNELS |-> IGNORE]

\* variant: rc_channel_values[channel_id] = pwm, the "- 1" forgotten
StoreChannelNoOffset(values, channel_id, pwm) ==
    IF channel_id + 1 \in DOMAIN values
    THEN [values EXCEPT ![channel_id + 1] = pwm]
    ELSE values

\* rc_channel_values[channel_id - 1] = pwm; the list's index channel_id - 1 is
\* position channel_id of the sequence
StoreChannel(values, channel_id, pwm) == [values EXCEPT ![channel_id] = pwm]

\* the loop over pwms.items(): raises at the first bad item
RECURSIVE FillChannels(_, _)
FillChannels(items, values) ==
    IF items = <<>> THEN [error |-> FALSE, values |-> values]
    ELSE LET channel_id == Head(items)[1]
             pwm == Head(items)[2]
         IN  IF ~ChannelOk(channel_id) THEN [error |-> TRUE, values |-> values]
             ELSE IF ~PwmOk(pwm) THEN [error |-> TRUE, values |-> values]
             ELSE FillChannels(Tail(items), StoreChannel(values, channel_id, pwm))

SetRcInputPwms(pwms) ==
    IF RcGated(connected, armed) THEN Outcome("return", <<>>)
    ELSE LET filled == FillChannels(pwms, IgnoreAll)
         IN  IF filled.error THEN Outcome("ValueError", <<>>)
             ELSE Outcome("return", <<Message("mav", "rc", filled.values, TRUE)>>)

\* -1 <= val <= 1, for val = n/Denom
AxisOk(n) == -Denom <= n /\ n <= Denom

\* variant: round half up, floor(x + 1/2)
RoundHalfUp(p, q) == (2 * p + q) \div (2 * q)

\* Python round() of p/q, q > 0: to the nearest integer, ties to the even one
Round(p, q) ==
    LET lo == p \div q
        r == p % q
    IN  IF 2 * r < q THEN lo
        ELSE IF 2 * r > q THEN lo + 1
        ELSE IF lo % 2 = 0 THEN lo ELSE lo + 1

\* min(max(pwm, 1100), 1900)
Clamp(pwm) ==
    LET low == IF pwm > MIN_PWM THEN pwm ELSE MIN_PWM
    IN  IF low < MAX_PWM THEN low ELSE MAX_PWM

\* round(val * 400 + 1500), clamped, for val = n/Denom
AxisPwm(n) == Clamp(Round(n * PWM_SCALE + PWM_CENTER * Denom, Denom))

\* variant: a bad value is skipped instead of raising
RECURSIVE MapInputsSkipBad(_, _)
MapInputsSkipBad(items, pwms) ==
    IF items = <<>> THEN [error |-> FALSE, pwms |-> pwms]
    ELSE LET channel == Head(items)[1]
             val == Head(items)[2]
         IN  IF ~AxisOk(val) THEN MapInputsSkipBad(Tail(items), pwms)
             ELSE MapInputsSkipBad(Tail(items),
                                   Append(pwms, <<InputChannel[channel], AxisPwm(val)>>))

\* the loop over values.items(): raises at the first bad value
RECURSIVE MapInputs(_, _)
MapInputs(items, pwms) ==
    IF items = <<>> THEN [error |-> FALSE, pwms |-> pwms]
    ELSE LET channel == Head(items)[1]
             val == Head(items)[2]
         IN  IF ~AxisOk(val) THEN [error |-> TRUE, pwms |-> pwms]
             ELSE MapInputs(Tail(items),
                            Append(pwms, <<InputChannel[channel], AxisPwm(val)>>))

SetRcInputs(values) ==
    LET mapped == MapInputs(values, <<>>)
    IN  IF mapped.error THEN Outcome("ValueError", <<>>)
        ELSE SetRcInputPwms(mapped.pwms)

\* variant: ROLL left out
StopValuesWithoutRoll ==
    <<<<"FORWARD", 0>>, <<"LATERAL", 0>>, <<"THROTTLE", 0>>, <<"YAW", 0>>, <<"PITCH", 0>>>>

\* the mapping stop_thrusters passes on
StopValues ==
    <<<<"FORWARD", 0>>, <<"LATERAL", 0>>, <<"THROTTLE", 0>>, <<"YAW", 0>>, <<"PITCH", 0>>,
      <<"ROLL", 0>>>>

StopThrusters == SetRcInputs(StopValues)

SetRcInputPwmsCall(pwms) ==
    /\ Command("set_rc_input_pwms", pwms, SetRcInputPwms(pwms).result,
               SetRcInputPwms(pwms).sent)
    /\ UNCHANGED relay_open

SetRcInputsCall(values) ==
    /\ Command("set_rc_inputs", values, SetRcInputs(values).result, SetRcInputs(values).sent)
    /\ UNCHANGED relay_open

StopThrustersCall ==
    /\ Command("stop_thrusters", <<>>, StopThrusters.result, StopThrusters.sent)
    /\ UNCHANGED relay_open

Next ==
    \/ \E msg \in Msgs, t \in now..MaxTime : Update(msg, t)
    \/ Arm
    \/ \E fails \in FailSets : Disarm(fails)
    \/ \E relay \in RelayNames, state \in BOOLEAN, fail \in BOOLEAN :
           SetRelayCall(relay, state, fail)
    \/ \E fails \in FailSets : TurnOffRelaysCall(fails)
    \/ \E pwms \in Dicts(PwmItems) : SetRcInputPwmsCall(pwms)
    \/ \E values \in Dicts(AxisItems) : SetRcInputsCall(values)
    \/ StopThrustersCall

Spec == Init /\ [][Next]_vars

\* wait_heartbeat(blocking=False) returning None
NoHeartbeat == [present |-> FALSE, base_mode |-> 0]

\* the driving loop calls update() again at a later clock value, no heartbeat pending
Tick == \E t \in (now + 1)..MaxTime : Update(NoHeartbeat, t)

\* update() keeps being called while the clock advances
SpecLive == Init /\ [][Next]_vars /\ WF_vars(Tick)

(***************************************************************************)
(* Slots.  A slot connected to the four signals runs inside emit(), before *)
(* update() writes the flag: a command it issues meets the guards with the *)
(* values the flags have at that moment.                                   *)
(***************************************************************************)
\* the command the connected slot issues: none, stop_thrusters() or
\* set_relay(Relay.MAGNET, True)
Slots == {"none", "stop_thrusters", "magnet_on"}

\* what the slot's command sends when is_connected() = c and is_armed() = a
SlotSends(slot, c, a) ==
    IF slot = "stop_thrusters"
    THEN (IF RcGated(c, a) THEN <<>>
          ELSE <<Message("mav", "rc",
                         FillChannels(MapInputs(StopValues, <<>>).pwms, IgnoreAll).values,
                         TRUE)>>)
    ELSE IF slot = "magnet_on"
    THEN (IF RelayGated(c, a, TRUE) THEN <<>>
          ELSE <<Message("relay", "relay", RelayBytes("MAGNET", TRUE),
                         SendOk(relay_open, FALSE))>>)
    ELSE <<>>

\* the sends of the slot over the signals of one update(), in emission order
RECURSIVE EmitAll(_, _)
EmitAll(evs, slot) ==
    IF evs = <<>> THEN <<>>
    ELSE SlotSends(slot, Head(evs).connected, Head(evs).armed) \o EmitAll(Tail(evs), slot)

\* update() with a slot connected to its signals
UpdateSlot(msg, t, slot) ==
    /\ now' = t
    /\ call' = [op |-> "update", arg |-> msg, slot |-> slot]
    /\ pre' = Entry
    /\ events' = UpdateSignals(msg, t)
    /\ log' = Remember(log, events')
    /\ sent' = EmitAll(events', slot)
    /\ result' = "return"
    /\ IF msg.present
       THEN /\ connected' = TRUE
            /\ last_msg_time' = t
            /\ armed' = ArmedBit(msg.base_mode)
       ELSE /\ connected' = IF connected /\ TimedOut(t, last_msg_time) THEN FALSE ELSE connected
            /\ UNCHANGED <<armed, last_msg_time>>
    /\ UNCHANGED relay_open

NextSlots ==
    \/ \E msg \in Msgs, t \in now..MaxTime, slot \in Slots : UpdateSlot(msg, t, slot)
    \/ Arm
    \/ \E fails \in FailSets : Disarm(fails)
    \/ \E relay \in RelayNames, state \in BOOLEAN, fail \in BOOLEAN :
           SetRelayCall(relay, state, fail)
    \/ \E fails \in FailSets : TurnOffRelaysCall(fails)
    \/ \E pwms \in Dicts(PwmItems) : SetRcInputPwmsCall(pwms)
    \/ \E values \in Dicts(AxisItems) : SetRcInputsCall(values)
    \/ StopThrustersCall

SpecSlots == Init /\ [][NextSlots]_vars

(***************************************************************************)
(* Vocabulary of the properties.                                           *)
(***************************************************************************)
IsRcPacket(m) == m.link = "mav" /\ m.kind = "rc"

IsRelayOn(m) == m.link = "relay" /\ m.data[2] = 1

IsRelayOff(m, relay) == m.link = "relay" /\ m.data = <<Relay[relay], 0>>

Emitted(sig) == \E i \in 1..Len(events) : events[i].sig = sig

Permitted == pre.connected /\ pre.armed

ActuationCall ==
    \/ call.op \in {"set_rc_inputs", "set_rc_input_pwms", "stop_thrusters"}
    \/ call.op = "set_relay" /\ call.arg.state

\* an item <<channel_id, pwm>> inside both ranges
GoodPwmItem(item) ==
    /\ 1 <= item[1] /\ item[1] <= 18
    /\ 1100 <= item[2] /\ item[2] <= 1900

\* an item <<channel, n>> whose axis value n/Denom lies in [-1, 1]
GoodAxisItem(item) == -Denom <= item[2] /\ item[2] <= Denom

AllItems(items, Good(_)) == \A i \in 1..Len(items) : Good(items[i])

ValidArguments ==
    /\ call.op = "set_rc_input_pwms" => AllItems(call.arg, GoodPwmItem)
    /\ call.op = "set_rc_inputs" => AllItems(call.arg, GoodAxisItem)

FrameHeld ==
    /\ connected = pre.connected
    /\ armed = pre.armed
    /\ last_msg_time = pre.last_msg_time

(***************************************************************************)
(* C1: in every reachable state armed = TRUE implies connected = TRUE; the *)
(* update() that times the link out leaves armed = FALSE.                  *)
(***************************************************************************)
C1_ArmedImpliesConnected == armed => connected

(***************************************************************************)
(* C2: an RC-channel-override packet or a relay-on message is handed to a  *)
(* transport only by a call entered with connected and armed both TRUE;    *)
(* set_rc_inputs, set_rc_input_pwms, stop_thrusters and set_relay(id,      *)
(* true) transmit nothing when either flag is FALSE.                       *)
(***************************************************************************)
C2_ActuationOnlyWhenPermitted ==
    /\ \A i \in 1..Len(sent) : IsRcPacket(sent[i]) \/ IsRelayOn(sent[i]) => Permitted
    /\ ActuationCall /\ ~Permitted => sent = <<>>

\* set_rc_inputs with a non-empty valid mapping, entered disconnected with a stale
\* armed flag, sends nothing
C2_Witness ==
    /\ call.op = "set_rc_inputs"
    /\ call.arg # <<>>
    /\ result = "return"
    /\ ~pre.connected /\ pre.armed
    /\ sent = <<>>

(***************************************************************************)
(* C3: set_relay(id, false) always sends the relay-off message             *)
(* [pin_id, 0], whatever connected and armed are.                          *)
(***************************************************************************)
C3_RelayOffAlwaysSent ==
    call.op = "set_relay" /\ ~call.arg.state
        => Len(sent) = 1 /\ IsRelayOff(sent[1], call.arg.relay)

(***************************************************************************)
(* C4: disarm(), in any state, sends a relay-off message for each of the   *)
(* six relays and only then the disarm request.                            *)
(***************************************************************************)
C4_DisarmRelaysOffFirst ==
    call.op = "disarm"
        => /\ Len(sent) = Cardinality(RelayNames) + 1
           /\ sent[Len(sent)].kind = "disarm"
           /\ \A r \in RelayNames : \E i \in 1..(Len(sent) - 1) : IsRelayOff(sent[i], r)

(***************************************************************************)
(* C5: set_rc_input_pwms with a mapping holding a channel id outside       *)
(* [1,18] or a pwm outside [1100,1900] fails with a validation error in    *)
(* every state and transmits nothing.                                      *)
(***************************************************************************)
C5_ValidatesBeforeGating ==
    call.op = "set_rc_input_pwms" /\ ~AllItems(call.arg, GoodPwmItem)
        => result = "ValueError" /\ sent = <<>>

(***************************************************************************)
(* C6: update() emits connected, disconnected, armed, disarmed exactly     *)
(* when the corresponding flag changes in that direction, each at most     *)
(* once; an update() that leaves both flags unchanged emits nothing (so a  *)
(* second identical armed heartbeat emits nothing), and no other call      *)
(* emits.                                                                  *)
(***************************************************************************)
C6_OneSignalPerChange ==
    /\ \A sig \in {"connected", "disconnected", "armed", "disarmed"} :
           Count(Names(events), sig) <= 1
    /\ Emitted("connected") <=> ~pre.connected /\ connected
    /\ Emitted("disconnected") <=> pre.connected /\ ~connected
    /\ Emitted("armed") <=> ~pre.armed /\ armed
    /\ Emitted("disarmed") <=> pre.armed /\ ~armed
    /\ call.op # "update" => events = <<>>
    /\ call.op = "update" /\ call.arg.present /\ ArmedBit(call.arg.base_mode) /\ ~pre.armed
           => Count(Names(events), "armed") = 1

\* the heartbeat right after the one that emitted armed: same armed bit, no signal
C6_Witness ==
    /\ call.op = "update"
    /\ call.arg.present /\ ArmedBit(call.arg.base_mode)
    /\ pre.connected /\ pre.armed
    /\ log # <<>> /\ log[Len(log)] = "armed"
    /\ events = <<>>

(***************************************************************************)
(* C7: disconnected is emitted exactly by an update() that receives no     *)
(* heartbeat while connected with now - last_received > 2 s, once; a       *)
(* receiver never sees two disconnected without a connected in between.    *)
(***************************************************************************)
C7_DisconnectedOncePerLoss ==
    /\ Emitted("disconnected")
           <=> /\ call.op = "update"
               /\ ~call.arg.present
               /\ pre.connected
               /\ now - pre.last_msg_time > 2
    /\ Count(Names(events), "disconnected") <= 1
    /\ \A i, j \in 1..Len(log) :
           i < j /\ log[i] = "disconnected" /\ log[j] = "disconnected"
               => \E k \in (i + 1)..(j - 1) : log[k] = "connected"

\* a further update() without heartbeat after the loss: no second disconnected
C7_Witness ==
    /\ call.op = "update"
    /\ ~call.arg.present
    /\ ~pre.connected
    /\ log # <<>> /\ log[Len(log)] = "disconnected"
    /\ now - last_msg_time > 2
    /\ events = <<>>

(***************************************************************************)
(* C8: set_rc_inputs or set_rc_input_pwms with a valid mapping,            *)
(* stop_thrusters and set_relay(id, true), entered while not (connected    *)
(* and armed), return normally, transmit nothing, emit nothing and leave   *)
(* connected, armed and the heartbeat record unchanged.                    *)
(***************************************************************************)
C8_GatedCallIsSilentNoOp ==
    ActuationCall /\ ValidArguments /\ ~Permitted
        => /\ result = "return"
           /\ sent = <<>>
           /\ events = <<>>
           /\ FrameHeld

\* set_relay(id, true) while connected but disarmed
C8_Witness ==
    /\ call.op = "set_relay" /\ call.arg.state
    /\ pre.connected /\ ~pre.armed
    /\ result = "return"
    /\ sent = <<>>

(***************************************************************************)
(* C9: set_rc_inputs with any value outside [-1, 1] fails with a           *)
(* validation error in every connection/arm state and transmits no         *)
(* RC-override packet.                                                     *)
(***************************************************************************)
C9_AxisValidationAllOrNothing ==
    call.op = "set_rc_inputs" /\ ~AllItems(call.arg, GoodAxisItem)
        => result = "ValueError" /\ sent = <<>>

\* connected and armed, a valid value followed by an invalid one: nothing is sent
C9_Witness ==
    /\ call.op = "set_rc_inputs"
    /\ Len(call.arg) = 2
    /\ GoodAxisItem(call.arg[1]) /\ ~GoodAxisItem(call.arg[2])
    /\ Permitted
    /\ result = "ValueError"
    /\ sent = <<>>

(***************************************************************************)
(* C10: every transmitted RC-override packet has exactly 18 slots, each    *)
(* 65535 or in [1100,1900]; slot c-1 (position c) holds the requested pwm  *)
(* of every channel c of the mapping and every other slot holds 65535;     *)
(* each permitted call transmits exactly one such packet.                  *)
(***************************************************************************)
RequestedChannels ==
    IF call.op = "set_rc_input_pwms" THEN Keys(call.arg)
    ELSE IF call.op = "set_rc_inputs" THEN {InputChannel[k] : k \in Keys(call.arg)}
    ELSE IF call.op = "stop_thrusters" THEN 1..6
    ELSE {}

C10_PacketShape ==
    /\ \A i \in 1..Len(sent) :
           IsRcPacket(sent[i])
               => /\ Len(sent[i].data) = 18
                  /\ \A c \in 1..18 :
                         IF c \in RequestedChannels
                         THEN 1100 <= sent[i].data[c] /\ sent[i].data[c] <= 1900
                         ELSE sent[i].data[c] = 65535
                  /\ call.op = "set_rc_input_pwms"
                         => \A k \in 1..Len(call.arg) :
                                sent[i].data[call.arg[k][1]] = call.arg[k][2]
    /\ call.op \in {"set_rc_inputs", "set_rc_input_pwms", "stop_thrusters"}
           /\ ValidArguments /\ Permitted
           => Len(sent) = 1 /\ IsRcPacket(sent[1])

\* a permitted set_rc_input_pwms with two entries sends its one packet
C10_Witness ==
    /\ call.op = "set_rc_input_pwms"
    /\ Len(call.arg) = 2
    /\ Permitted
    /\ Len(sent) = 1 /\ IsRcPacket(sent[1])

(***************************************************************************)
(* C11: for an axis value v = n/Denom in [-1, 1] the pwm that              *)
(* set_rc_inputs puts in the packet is the integer nearest to              *)
(* v*400 + 1500 (the even one at a tie, as Python's round), lies in        *)
(* [1100,1900], does not decrease when v grows, and is 1100, 1500, 1900    *)
(* for v = -1, 0, 1.                                                       *)
(***************************************************************************)
\* the slot of the packet that carries item k of the mapping
AxisSlot(k) == sent[1].data[InputChannel[call.arg[k][1]]]

\* Denom times the distance between pwm and (n/Denom)*400 + 1500
AxisError(n, pwm) ==
    LET d == pwm * Denom - (n * 400 + 1500 * Denom)
    IN  IF d < 0 THEN -d ELSE d

C11_AxisToPwm ==
    call.op = "set_rc_inputs" /\ sent # <<>>
        => \A k \in 1..Len(call.arg) :
               LET n == call.arg[k][2]
               IN  /\ 1100 <= AxisSlot(k) /\ AxisSlot(k) <= 1900
                   /\ 2 * AxisError(n, AxisSlot(k)) <= Denom
                   /\ 2 * AxisError(n, AxisSlot(k)) = Denom => AxisSlot(k) % 2 = 0
                   /\ n = -Denom => AxisSlot(k) = 1100
                   /\ n = 0 => AxisSlot(k) = 1500
                   /\ n = Denom => AxisSlot(k) = 1900
                   /\ \A j \in 1..Len(call.arg) :
                          call.arg[j][2] <= n => AxisSlot(j) <= AxisSlot(k)

\* two axis values on rounding boundaries, 3/800 and 2/800, in one packet
C11_Witness ==
    /\ call.op = "set_rc_inputs"
    /\ Len(call.arg) = 2
    /\ call.arg[1][2] = 3 /\ call.arg[2][2] = 2
    /\ Len(sent) = 1
    /\ AxisSlot(1) >= AxisSlot(2)

(***************************************************************************)
(* C12: a send failure on the relay socket inside set_relay,               *)
(* turn_off_relays or disarm is caught: the call returns normally, every   *)
(* relay of turn_off_relays is still attempted (and disarm still sends     *)
(* its request), and connected and armed are unchanged.                    *)
(***************************************************************************)
RelaySendFailed == \E i \in 1..Len(sent) : sent[i].link = "relay" /\ ~sent[i].ok

C12_RelaySendFailureCaught ==
    call.op \in {"set_relay", "turn_off_relays", "disarm"} /\ RelaySendFailed
        => /\ result = "return"
           /\ FrameHeld
           /\ call.op \in {"turn_off_relays", "disarm"}
                  => \A r \in RelayNames : \E i \in 1..Len(sent) : IsRelayOff(sent[i], r)
           /\ call.op = "disarm" => sent[Len(sent)].kind = "disarm"

\* turn_off_relays whose first send raises and whose second send succeeds
C12_Witness ==
    /\ call.op = "turn_off_relays"
    /\ Len(sent) = 6
    /\ ~sent[1].ok
    /\ sent[2].ok
    /\ result = "return"

(***************************************************************************)
(* C14: every set_relay(id, state) call that passes the guard (connected,  *)
(* and armed when state is on) sends exactly one message of exactly two    *)
(* bytes [pin, s]: pin is MAGNET=0, PVC_FRONT=1, PVC_BACK=2, CLAW_BACK=3,  *)
(* CLAW_FRONT=4, LIGHTS=5 and s is 1 for on, 0 for off.                    *)
(***************************************************************************)
PinOf(relay) ==
    CASE relay = "MAGNET" -> 0
      [] relay = "PVC_FRONT" -> 1
      [] relay = "PVC_BACK" -> 2
      [] relay = "CLAW_BACK" -> 3
      [] relay = "CLAW_FRONT" -> 4
      [] relay = "LIGHTS" -> 5

HasBit80(byte) == byte % 256 >= 128

C16_HeartbeatSetsState ==
    /\ call.op = "update" /\ call.arg.present
           => /\ connected
              /\ armed = HasBit80(call.arg.base_mode)
              /\ last_msg_time = now
    /\ call.op = "update" /\ ~call.arg.present /\ pre.connected
           /\ now - pre.last_msg_time <= 2
           => connected /\ ~Emitted("disconnected")

\* a later heartbeat of an armed link with the bit clear moves the record forward
C16_Witness ==
    /\ call.op = "update" /\ call.arg.present
    /\ call.arg.base_mode = 81
    /\ pre.connected /\ pre.armed
    /\ pre.last_msg_time < now
    /\ last_msg_time = now
    /\ ~armed

(***************************************************************************)
(* C18: stop_thrusters() behaves as set_rc_inputs with zero on FORWARD,    *)
(* LATERAL, THROTTLE, YAW, PITCH, ROLL: connected and armed it sends one   *)
(* RC-override packet with 1500 in the slots of channels 1..6 and 65535    *)
(* in the other twelve; otherwise it sends nothing and does not raise.     *)
(***************************************************************************)
NeutralPacket == [c \in 1..18 |-> IF c <= 6 THEN 1500 ELSE 65535]

C18_StopThrusters ==
    call.op = "stop_thrusters"
        => /\ result = "return"
           /\ IF Permitted
              THEN Len(sent) = 1 /\ IsRcPacket(sent[1]) /\ sent[1].data = NeutralPacket
              ELSE sent = <<>>

\* stop_thrusters on a connected and armed vehicle
C18_Witness ==
    /\ call.op = "stop_thrusters"
    /\ Permitted
    /\ Len(sent) = 1
    /\ sent[1].data[6] = 1500 /\ sent[1].data[7] = 65535

(***************************************************************************)
(* C15: the first update() after a loss by timeout that receives a         *)
(* heartbeat with bit 0x80 set emits connected and then armed, so a        *)
(* receiver's last three signals are disconnected, connected, armed.       *)
(***************************************************************************)
LastThree(seq) == SubSeq(seq, Len(seq) - 2, Len(seq))

C15_ReconnectEmitsConnectedArmed ==
    (/\ call.op = "update"
     /\ call.arg.present /\ HasBit80(call.arg.base_mode)
     /\ ~pre.connected
     /\ pre.last_msg_time # None)
        => /\ Names(events) = <<"connected", "armed">>
           /\ Len(log) >= 3
           /\ LastThree(log) = <<"disconnected", "connected", "armed">>

(***************************************************************************)
(* C19: only update() changes state.  Every other call leaves connected,   *)
(* armed and the last-heartbeat time unchanged and emits nothing; after    *)
(* disarm() on a connected and armed vehicle is_armed() is still true and  *)
(* a following stop_thrusters() or set_relay(id, true) is still            *)
(* forwarded.                                                              *)
(***************************************************************************)
C19_OnlyUpdateChangesState ==
    [][/\ call'.op # "update"
           => /\ connected' = connected
              /\ armed' = armed
              /\ last_msg_time' = last_msg_time
              /\ events' = <<>>
              /\ log' = log
       /\ call.op = "disarm" /\ pre.connected /\ pre.armed
           => /\ connected /\ armed
              /\ call'.op = "stop_thrusters" => Len(sent') = 1 /\ IsRcPacket(sent'[1])
              /\ call'.op = "set_relay" /\ call'.arg.state
                     => Len(sent') = 1 /\ IsRelayOn(sent'[1])]_vars

\* disarm() has returned on a connected and armed vehicle: is_armed() is still true
C19_Witness ==
    /\ call.op = "disarm"
    /\ pre.connected /\ pre.armed
    /\ connected /\ armed
    /\ sent[Len(sent)].kind = "disarm"

(***************************************************************************)
(* C17: while update() keeps being called with an advancing clock, a       *)
(* connected link whose timeout still fits in the modelled clock range     *)
(* leads to connected = FALSE with disconnected emitted, unless a          *)
(* heartbeat arrives; and a valid set_rc_inputs entered disconnected is a  *)
(* silent no-op.                                                           *)
(***************************************************************************)
HeartbeatArrived == call.op = "update" /\ call.arg.present

LossDetected == ~connected /\ log # <<>> /\ log[Len(log)] = "disconnected"

C17_LossEventuallyDetected ==
    /\ (connected /\ last_msg_time + TIMEOUT < MaxTime) ~> (LossDetected \/ HeartbeatArrived)
    /\ [](call.op = "set_rc_inputs" /\ ~pre.connected /\ AllItems(call.arg, GoodAxisItem)
              => result = "return" /\ sent = <<>> /\ events = <<>>)

\* after the loss was detected, set_rc_inputs with a valid mapping does nothing
C17_Witness ==
    /\ call.op = "set_rc_inputs"
    /\ call.arg # <<>>
    /\ AllItems(call.arg, GoodAxisItem)
    /\ LossDetected
    /\ result = "return"
    /\ sent = <<>>

(***************************************************************************)
(* C20: each signal is emitted before its flag is written.  Inside         *)
(* connected is_connected() is false, inside armed is_armed() is false,    *)
(* inside disarmed is_armed() is true, inside disconnected is_connected()  *)
(* is true; so an actuation command issued by a slot is dropped inside     *)
(* connected and armed, forwarded inside disarmed, and forwarded inside    *)
(* disconnected when the link was armed.                                   *)
(***************************************************************************)
SeenBeforeWrite(ev) ==
    /\ ev.sig = "connected" => ~ev.connected /\ connected
    /\ ev.sig = "armed" => ~ev.armed /\ armed
    /\ ev.sig = "disarmed" => ev.armed /\ ~armed
    /\ ev.sig = "disconnected" => ev.connected /\ ~connected

C20_EmitBeforeWrite ==
    /\ \A i \in 1..Len(events) : SeenBeforeWrite(events[i])
    /\ call.op = "update" /\ call.slot # "none"
           => Len(sent) = (IF Emitted("disarmed") THEN 1 ELSE 0)
                              + (IF Emitted("disconnected") /\ pre.armed THEN 1 ELSE 0)

\* stop_thrusters() issued inside the disconnected signal of an armed link is sent
C20_Witness ==
    /\ call.op = "update"
    /\ call.slot = "stop_thrusters"
    /\ Emitted("disconnected")
    /\ ~connected
    /\ Len(sent) = 1 /\ IsRcPacket(sent[1])
====
